---- MODULE Spec2Model ----
(***************************************************************************)
(* Sage, a mental-health support chatbot: the response engine              *)
(* (app/chat_service.py), the credential store (app/auth.py), the          *)
(* relational store (app/database.py) and the HTTP routes (app/main.py).   *)
(*                                                                         *)
(* A text is a sequence of one-character strings, so that lower(), strip(),*)
(* split() and the substring test are computed character by character.     *)
(* The long fixed literals of the source (the crisis message, the response *)
(* templates) are texts of a single element holding the literal's opening  *)
(* words.                                                                  *)
(***************************************************************************)
EXTENDS Naturals, Sequences, FiniteSets

VARIABLES
    OPENAI_API_KEY,   \* config.py: "" when the environment does not set it
    GROQ_API_KEY,     \* config.py: "" when the environment does not set it
    users,            \* table users: row id = index
    chat_sessions,    \* table chat_sessions: row id = index
    messages,         \* table messages: row id = index
    tokens,           \* the tokens the server has issued so far, each with its day of issue
    registered,       \* history: the username and password of each successful registration
    now,              \* the wall clock, in days
    last              \* the last call made and what it returned

vars == <<OPENAI_API_KEY, GROQ_API_KEY, users, chat_sessions, messages, tokens, registered,
          now, last>>

----------------------------------------------------------------------------
(* Python str primitives *)

UpperChars == <<"A","B","C","D","E","F","G","H","I","J","K","L","M","N","O","P","Q","R","S","T","U","V","W","X","Y","Z">>
LowerChars == <<"a","b","c","d","e","f","g","h","i","j","k","l","m","n","o","p","q","r","s","t","u","v","w","x","y","z">>

\* one character of str.lower()
LowerChar(c) ==
    IF \E i \in 1..Len(UpperChars) : UpperChars[i] = c
    THEN LowerChars[CHOOSE i \in 1..Len(UpperChars) : UpperChars[i] = c]
    ELSE c

\* str.lower()
RECURSIVE lower(_)
lower(s) == IF s = <<>> THEN <<>> ELSE <<LowerChar(Head(s))>> \o lower(Tail(s))

\* Python's  sub in s  on strings
Contains(s, sub) ==
    \E i \in 0..(Len(s) - Len(sub)) : \A j \in 1..Len(sub) : s[i + j] = sub[j]

\* any(kw in msg for kw in kws)
AnyKeywordIn(kws, msg) == \E k \in 1..Len(kws) : Contains(msg, kws[k])

IsSpace(c) == c \in {" ", "\t", "\n"}

RECURSIVE lstrip(_)
lstrip(s) == IF s # <<>> /\ IsSpace(Head(s)) THEN lstrip(Tail(s)) ELSE s

RECURSIVE rstrip(_)
rstrip(s) == IF s # <<>> /\ IsSpace(s[Len(s)]) THEN rstrip(SubSeq(s, 1, Len(s) - 1)) ELSE s

\* str.strip()
strip(s) == rstrip(lstrip(s))

\* re.split(r"[.!?]", s)[0]: the text before the first sentence mark
RECURSIVE FirstClause(_)
FirstClause(s) ==
    IF s = <<>> \/ Head(s) \in {".", "!", "?"} THEN <<>>
    ELSE <<Head(s)>> \o FirstClause(Tail(s))

RECURSIVE TakeWord(_)
TakeWord(s) ==
    IF s = <<>> \/ IsSpace(Head(s)) THEN <<>> ELSE <<Head(s)>> \o TakeWord(Tail(s))

\* str.split(): the maximal runs of non-space characters
RECURSIVE split(_)
split(s) ==
    LET t == lstrip(s) IN
    IF t = <<>> THEN <<>>
    ELSE LET w == TakeWord(t) IN <<w>> \o split(SubSeq(t, Len(w) + 1, Len(t)))

\* " ".join(words)
RECURSIVE join(_)
join(words) ==
    IF words = <<>> THEN <<>>
    ELSE IF Len(words) = 1 THEN words[1]
    ELSE words[1] \o <<" ">> \o join(Tail(words))

\* words[:n]
Take(seq, n) == SubSeq(seq, 1, IF Len(seq) < n THEN Len(seq) ELSE n)

\* a Python  str | None
None == [some |-> FALSE, text |-> <<>>]
Some(t) == [some |-> TRUE, text |-> t]
\* Python truthiness of a  str | None : neither None nor ""
Truthy(o) == o.some /\ o.text # <<>>

\* random.choice(seq), r being the random draw
choice(seq, r) == seq[(r % Len(seq)) + 1]

----------------------------------------------------------------------------
(* app/chat_service.py *)

EMPATHETIC_RESPONSES ==
    [ depression |-> << <<"I hear you, and what you're feeling is valid. [...]">>,
                        <<"That sounds really difficult. [...]">>,
                        <<"Thank you for sharing. Depression can feel isolating [...]">>,
                        <<"What you're describing is hard to carry. [...]">>,
                        <<"I'm glad you're here. It's okay to not be okay. [...]">> >>,
      anxiety    |-> << <<"I understand how overwhelming anxiety can feel. [...]">>,
                        <<"Anxiety can make everything feel urgent. [...]">>,
                        <<"What you're experiencing is real and challenging. [...]">>,
                        <<"I hear you. When anxiety spikes, it can feel like too much. [...]">> >>,
      stress     |-> << <<"Stress can feel overwhelming when it builds up. [...]">>,
                        <<"You're carrying a lot right now. [...]">>,
                        <<"Stress takes a real toll. [...]">>,
                        <<"It sounds like a lot is on your plate. [...]">> >>,
      loneliness |-> << <<"Feeling lonely is difficult [...]">>,
                        <<"Loneliness can make us feel invisible. [...]">>,
                        <<"You're not alone in feeling alone. [...]">>,
                        <<"Connection doesn't have to be big. [...]">> >>,
      sleep      |-> << <<"Sleep and mood are closely linked. [...]">>,
                        <<"Not sleeping well is exhausting [...]">> >>,
      anger      |-> << <<"Anger can be a way our mind and body respond to stress or hurt. [...]">>,
                        <<"Feeling angry doesn't make you a bad person. [...]">> >>,
      general    |-> << <<"I'm here to listen. [...]">>,
                        <<"Thank you for reaching out. [...]">>,
                        <<"I hear you. Mental health challenges are real and valid. [...]">>,
                        <<"You're not alone. Many people have walked similar paths [...]">>,
                        <<"Whatever you're feeling, it's okay to feel it. [...]">> >> ]

CRISIS_KEYWORDS ==
    << <<"s","u","i","c","i","d","e">>,
       <<"s","u","i","c","i","d","a","l">>,
       <<"k","i","l","l"," ","m","y","s","e","l","f">>,
       <<"e","n","d"," ","m","y"," ","l","i","f","e">>,
       <<"w","a","n","t"," ","t","o"," ","d","i","e">>,
       <<"s","e","l","f","-","h","a","r","m">>,
       <<"h","u","r","t"," ","m","y","s","e","l","f">> >>

CRISIS_MESSAGE == <<"I'm concerned about what you've shared. If you're in crisis, please reach out immediately. [...]">>

\* each prefix as the text before and the text after its {} placeholder
REFLECTION_PREFIXES ==
    << [pre |-> <<"Y","o","u"," ","s","h","a","r","e","d"," ","t","h","a","t"," ">>, post |-> <<" ", "EM_DASH", " ">>],
       [pre |-> <<"I","t"," ","s","o","u","n","d","s"," ","l","i","k","e"," ">>, post |-> <<" ", "EM_DASH", " ">>],
       [pre |-> <<"H","e","a","r","i","n","g"," ","t","h","a","t"," ">>, post |-> <<" ", "EM_DASH", " ">>] >>

\* the keyword lists of _detect_topic, in the order it tests them
DepressionKeywords ==
    << <<"d","e","p","r","e","s","s">>,
       <<"s","a","d">>,
       <<"h","o","p","e","l","e","s","s">>,
       <<"e","m","p","t","y">>,
       <<"w","o","r","t","h","l","e","s","s">>,
       <<"d","o","w","n">>,
       <<"l","o","w">> >>

AnxietyKeywords ==
    << <<"a","n","x","i","o","u","s">>,
       <<"a","n","x","i","e","t","y">>,
       <<"p","a","n","i","c">>,
       <<"w","o","r","r","y">>,
       <<"w","o","r","r","i","e","d">>,
       <<"n","e","r","v","o","u","s">>,
       <<"s","c","a","r","e","d">> >>

StressKeywords ==
    << <<"s","t","r","e","s","s">>,
       <<"s","t","r","e","s","s","e","d">>,
       <<"o","v","e","r","w","h","e","l","m">>,
       <<"p","r","e","s","s","u","r","e">>,
       <<"b","u","s","y">>,
       <<"t","i","r","e","d">> >>

LonelinessKeywords ==
    << <<"l","o","n","e","l","y">>,
       <<"a","l","o","n","e">>,
       <<"i","s","o","l","a","t">>,
       <<"d","i","s","c","o","n","n","e","c","t">>,
       <<"n","o"," ","o","n","e">>,
       <<"f","r","i","e","n","d">> >>

SleepKeywords ==
    << <<"s","l","e","e","p">>,
       <<"i","n","s","o","m","n","i","a">>,
       <<"t","i","r","e","d">>,
       <<"e","x","h","a","u","s","t","e","d">>,
       <<"c","a","n","'","t"," ","s","l","e","e","p">> >>

AngerKeywords ==
    << <<"a","n","g","r","y">>,
       <<"a","n","g","e","r">>,
       <<"f","r","u","s","t","r","a","t">>,
       <<"i","r","r","i","t","a","t">>,
       <<"m","a","d">> >>

\* the variant that tests the message as typed, without lower()
detect_topic_case_sensitive(message) ==
    IF AnyKeywordIn(DepressionKeywords, message) THEN "depression"
    ELSE IF AnyKeywordIn(AnxietyKeywords, message) THEN "anxiety"
    ELSE IF AnyKeywordIn(StressKeywords, message) THEN "stress"
    ELSE IF AnyKeywordIn(LonelinessKeywords, message) THEN "loneliness"
    ELSE IF AnyKeywordIn(SleepKeywords, message) THEN "sleep"
    ELSE IF AnyKeywordIn(AngerKeywords, message) THEN "anger"
    ELSE "general"

_detect_topic(message) ==
    LET msg_lower == lower(message) IN
    IF AnyKeywordIn(DepressionKeywords, msg_lower) THEN "depression"
    ELSE IF AnyKeywordIn(AnxietyKeywords, msg_lower) THEN "anxiety"
    ELSE IF AnyKeywordIn(StressKeywords, msg_lower) THEN "stress"
    ELSE IF AnyKeywordIn(LonelinessKeywords, msg_lower) THEN "loneliness"
    ELSE IF AnyKeywordIn(SleepKeywords, msg_lower) THEN "sleep"
    ELSE IF AnyKeywordIn(AngerKeywords, msg_lower) THEN "anger"
    ELSE "general"

\* the default of the max_words parameter
DEFAULT_MAX_WORDS == 8

\* the shortest stripped message _short_reflection reflects
MIN_REFLECT_LEN == 10

\* the variant without the test of the message's length
short_reflection_any_length(message, max_words) ==
    LET first == strip(FirstClause(strip(message)))
        words == Take(split(first), max_words)
    IN  IF Len(words) < 2 THEN None ELSE Some(lower(join(words)))

_short_reflection(message, max_words) ==
    LET stripped == strip(message) IN
    IF Len(stripped) < MIN_REFLECT_LEN THEN None
    ELSE LET first == strip(FirstClause(stripped))
             words == Take(split(first), max_words)
         IN  IF Len(words) < 2 THEN None ELSE Some(lower(join(words)))

\* the variant that tests the message as typed, without lower()
is_crisis_case_sensitive(message) == AnyKeywordIn(CRISIS_KEYWORDS, message)

_is_crisis(message) ==
    LET msg_lower == lower(message) IN AnyKeywordIn(CRISIS_KEYWORDS, msg_lower)

\* What one POST to a provider can end in: an HTTP response (its status; at 200
\* its body either carries choices[0].message.content or is malformed), an
\* exception raised by the client, or the 30 s timeout.
\* The body of the try statement of a provider call: the value it returns, or
\* that it raised (the client's exception or timeout, or the KeyError of a
\* malformed body); a status other than 200 falls through to  return None
completion_request(outcome) ==
    IF outcome.kind # "response" THEN [raised |-> TRUE, result |-> None]
    ELSE IF outcome.status # 200 THEN [raised |-> FALSE, result |-> None]
    ELSE IF outcome.body # "completion" THEN [raised |-> TRUE, result |-> None]
    ELSE [raised |-> FALSE, result |-> Some(strip(outcome.content))]

\* the variant without  except Exception: pass
openai_response_uncaught(message, outcome) ==
    IF OPENAI_API_KEY = "" THEN [result |-> None, calls |-> <<>>, raised |-> FALSE]
    ELSE LET attempt == completion_request(outcome)
         IN  [result |-> attempt.result, calls |-> <<"openai">>, raised |-> attempt.raised]

\* each provider call returns its result, the trace of remote calls made and
\* whether an exception leaves it
_openai_response(message, outcome) ==
    IF OPENAI_API_KEY = "" THEN [result |-> None, calls |-> <<>>, raised |-> FALSE]
    ELSE LET attempt == completion_request(outcome)
         IN  [result |-> IF attempt.raised THEN None ELSE attempt.result,
              calls |-> <<"openai">>, raised |-> FALSE]

_groq_response(message, outcome) ==
    IF GROQ_API_KEY = "" THEN [result |-> None, calls |-> <<>>, raised |-> FALSE]
    ELSE LET attempt == completion_request(outcome)
         IN  [result |-> IF attempt.raised THEN None ELSE attempt.result,
              calls |-> <<"groq">>, raised |-> FALSE]

\* the variant that asks Groq first
get_ai_response_groq_first(message, outA, outB) ==
    LET b == _groq_response(message, outB) IN
    IF b.raised \/ Truthy(b.result) THEN b
    ELSE LET a == _openai_response(message, outA)
         IN  [result |-> a.result, calls |-> b.calls \o a.calls, raised |-> a.raised]

get_ai_response(message, outA, outB) ==
    LET a == _openai_response(message, outA) IN
    IF a.raised \/ Truthy(a.result) THEN a
    ELSE LET b == _groq_response(message, outB)
         IN  [result |-> b.result, calls |-> a.calls \o b.calls, raised |-> b.raised]

suggestions_map ==
    [ depression |-> <<"Talk about what helps", "I want to try therapy", "Coping strategies">>,
      anxiety    |-> <<"Breathing exercises", "Grounding techniques", "When to see a professional">>,
      stress     |-> <<"Stress management tips", "Setting boundaries", "Self-care ideas">>,
      loneliness |-> <<"Building connections", "Online communities", "Volunteering">>,
      sleep      |-> <<"Sleep routine tips", "When to see a doctor", "Relaxation before bed">>,
      anger      |-> <<"Managing anger", "Safe ways to express", "When to get support">>,
      general    |-> <<"Tell me more", "I need resources", "Crisis support">> ]

\* rng: the draws of random.choice(responses), random.random() < 0.5 and
\* random.choice(REFLECTION_PREFIXES)
_fallback_response(message, rng) ==
    LET topic == _detect_topic(message)
        responses == IF topic \in DOMAIN EMPATHETIC_RESPONSES
                     THEN EMPATHETIC_RESPONSES[topic] ELSE EMPATHETIC_RESPONSES["general"]
        base == choice(responses, rng.base)
        reflection == _short_reflection(message, DEFAULT_MAX_WORDS)
        prefix == choice(REFLECTION_PREFIXES, rng.prefix)
        response == IF Truthy(reflection) /\ rng.coin
                    THEN prefix.pre \o reflection.text \o prefix.post \o base
                    ELSE base
        suggestions == IF topic \in DOMAIN suggestions_map
                       THEN suggestions_map[topic] ELSE suggestions_map["general"]
    IN  [response |-> response, suggestions |-> suggestions]

CRISIS_SUGGESTIONS ==
    <<"Call Tele-MANAS 14416", "Call KIRAN 1800-599-0019", "Reach out to someone you trust">>

AI_SUGGESTIONS ==
    <<"Tell me more", "What coping strategies help?", "I need professional help">>

\* returns the (response, suggestions) pair, the trace of what ran (the remote
\* calls made, then "fallback" if _fallback_response ran) and whether an
\* exception leaves it
get_chat_response(message, outA, outB, rng) ==
    IF _is_crisis(message)
    THEN [response |-> CRISIS_MESSAGE, suggestions |-> CRISIS_SUGGESTIONS, calls |-> <<>>,
          raised |-> FALSE]
    ELSE LET ai == get_ai_response(message, outA, outB) IN
         IF ai.raised
         THEN [response |-> <<>>, suggestions |-> <<>>, calls |-> ai.calls, raised |-> TRUE]
         ELSE IF Truthy(ai.result)
         THEN [response |-> ai.result.text, suggestions |-> AI_SUGGESTIONS,
               calls |-> ai.calls, raised |-> FALSE]
         ELSE LET fb == _fallback_response(message, rng)
              IN  [response |-> fb.response, suggestions |-> fb.suggestions,
                   calls |-> ai.calls \o <<"fallback">>, raised |-> FALSE]

----------------------------------------------------------------------------
(* app/auth.py *)

SECRET_KEY == "sage-secret-key-change-in-production"

ACCESS_TOKEN_EXPIRE_DAYS == 7

\* the longest password, in bytes, hash_password accepts
MAX_PASSWORD_BYTES == 72

\* the bytes of a secret bcrypt reads: it ignores what follows them
BCRYPT_TRUNCATE_SIZE == 72

\* str.encode("utf-8"): one byte per ASCII character; "e_acute" stands for
\* U+00E9, which encodes to the two bytes C3 A9
RECURSIVE utf8(_)
utf8(s) ==
    IF s = <<>> THEN <<>>
    ELSE (IF Head(s) = "e_acute" THEN <<"0xC3", "0xA9">> ELSE <<Head(s)>>) \o utf8(Tail(s))

\* pwd_context.hash(password): bcrypt's digest is a function of the salt and of
\* the first 72 bytes of the secret; the salt, stored with the digest, is left out
bcrypt_hash(password) ==
    [scheme |-> "bcrypt", secret |-> Take(utf8(password), BCRYPT_TRUNCATE_SIZE)]

\* the variant that counts characters where the code counts bytes
hash_password_counts_characters(password) ==
    IF Len(password) > MAX_PASSWORD_BYTES
    THEN [status |-> 400, detail |-> "Password too long", hash |-> bcrypt_hash(<<>>)]
    ELSE [status |-> 200, detail |-> "", hash |-> bcrypt_hash(password)]

\* the outcome of hash_password: the hash, or the HTTPException it raises
hash_password(password) ==
    IF Len(utf8(password)) > MAX_PASSWORD_BYTES
    THEN [status |-> 400, detail |-> "Password too long", hash |-> bcrypt_hash(<<>>)]
    ELSE [status |-> 200, detail |-> "", hash |-> bcrypt_hash(password)]

\* What the installed bcrypt backend does with a secret longer than 72 bytes:
\* releases before 5.0 ignore the bytes past the 72nd, later ones raise ValueError.
BcryptBackends == {"truncates", "rejects"}

\* pwd_context.verify(plain, hashed): hashes plain with the stored salt and
\* compares; nothing checks the length of plain first
verify_password(plain, hashed, backend) ==
    IF backend = "rejects" /\ Len(utf8(plain)) > BCRYPT_TRUNCATE_SIZE
    THEN [raised |-> TRUE, ok |-> FALSE]
    ELSE [raised |-> FALSE, ok |-> bcrypt_hash(plain) = hashed]

\* the HS256 signature of a payload under a key
Sign(key, sub, exp) == [key |-> key, sub |-> sub, exp |-> exp]

create_token(username) ==
    LET expire == now + ACCESS_TOKEN_EXPIRE_DAYS
    IN  [sub |-> username, exp |-> expire, sig |-> Sign(SECRET_KEY, username, expire)]

\* the variant that does not verify the expiry
decode_token_no_expiry(token) ==
    IF token.sig # Sign(SECRET_KEY, token.sub, token.exp) THEN None
    ELSE Some(token.sub)

\* jwt.decode raises JWTError on a bad signature and on exp < now; both are
\* caught and give None
decode_token(token) ==
    IF token.sig # Sign(SECRET_KEY, token.sub, token.exp) THEN None
    ELSE IF token.exp < now THEN None
    ELSE Some(token.sub)

----------------------------------------------------------------------------
(* app/models.py: the bodies the schema layer lets through to the handlers *)

\* ChatMessage: message of 1 to 2000 characters
ValidChatMessage(message) == Len(message) >= 1 /\ Len(message) <= 2000

\* UserRegister: username of 3 to 50, email of at least 5, password of 6 to 72 characters
ValidUserRegister(data) ==
    /\ Len(data.username) >= 3 /\ Len(data.username) <= 50
    /\ Len(data.email) >= 5
    /\ Len(data.password) >= 6 /\ Len(data.password) <= 72

----------------------------------------------------------------------------
(* app/database.py and the SQL of app/main.py *)

\* SELECT ... FROM users WHERE username = ?: the ids of the matching rows
UsersNamed(username) == { i \in 1..Len(users) : users[i].username = username }

\* the variant with no UNIQUE constraint on email
ViolatesUniqueUsername(username, email) ==
    \E i \in 1..Len(users) : users[i].username = username

\* the UNIQUE constraints of table users
ViolatesUnique(username, email) ==
    \E i \in 1..Len(users) : users[i].username = username \/ users[i].email = email

\* the variant that puts a row before the rows of equal key
RECURSIVE InsertByCreatedAtUnstable(_, _, _)
InsertByCreatedAtUnstable(sorted, row, desc) ==
    IF sorted = <<>> THEN <<row>>
    ELSE IF (IF desc THEN Head(sorted).created_at <= row.created_at
                     ELSE Head(sorted).created_at >= row.created_at)
         THEN <<row>> \o sorted
         ELSE <<Head(sorted)>> \o InsertByCreatedAtUnstable(Tail(sorted), row, desc)

\* ORDER BY created_at as SQLite does it: rows keep their scan order among equal keys
RECURSIVE InsertByCreatedAt(_, _, _)
InsertByCreatedAt(sorted, row, desc) ==
    IF sorted = <<>> THEN <<row>>
    ELSE IF (IF desc THEN Head(sorted).created_at < row.created_at
                     ELSE Head(sorted).created_at > row.created_at)
         THEN <<row>> \o sorted
         ELSE <<Head(sorted)>> \o InsertByCreatedAt(Tail(sorted), row, desc)

RECURSIVE OrderByCreatedAt(_, _)
OrderByCreatedAt(rows, desc) ==
    IF rows = <<>> THEN <<>>
    ELSE InsertByCreatedAt(OrderByCreatedAt(SubSeq(rows, 1, Len(rows) - 1), desc),
                           rows[Len(rows)], desc)

\* the rows of a table, in id order, that satisfy a WHERE clause
RECURSIVE SelectIds(_, _)
SelectIds(n, keep) ==
    IF n = 0 THEN <<>>
    ELSE SelectIds(n - 1, keep) \o (IF n \in keep THEN <<n>> ELSE <<>>)

HISTORY_LIMIT == 50

\* the query of get_history
HistoryRows(username) ==
    LET ids == SelectIds(Len(chat_sessions),
                   { s \in 1..Len(chat_sessions) :
                       \E u \in 1..Len(users) :
                           chat_sessions[s].user_id = u /\ users[u].username = username })
        rows == [k \in 1..Len(ids) |->
                   [id |-> ids[k], created_at |-> chat_sessions[ids[k]].created_at,
                    msg_count |-> Cardinality({ m \in 1..Len(messages) :
                                                  messages[m].session_id = ids[k] })]]
    IN  Take(OrderByCreatedAt(rows, TRUE), HISTORY_LIMIT)

\* the variant without the join on the requesting user
SessionMessageRowsAnyOwner(session_id, username) ==
    LET ids == SelectIds(Len(messages),
                   { m \in 1..Len(messages) : messages[m].session_id = session_id })
        rows == [k \in 1..Len(ids) |->
                   [role |-> messages[ids[k]].role, content |-> messages[ids[k]].content,
                    created_at |-> messages[ids[k]].created_at]]
    IN  OrderByCreatedAt(rows, FALSE)

\* the query of get_session_messages
SessionMessageRows(session_id, username) ==
    LET ids == SelectIds(Len(messages),
                   { m \in 1..Len(messages) :
                       /\ messages[m].session_id = session_id
                       /\ \E s \in 1..Len(chat_sessions), u \in 1..Len(users) :
                            /\ s = session_id
                            /\ chat_sessions[s].user_id = u
                            /\ users[u].username = username })
        rows == [k \in 1..Len(ids) |->
                   [role |-> messages[ids[k]].role, content |-> messages[ids[k]].content,
                    created_at |-> messages[ids[k]].created_at]]
    IN  OrderByCreatedAt(rows, FALSE)

----------------------------------------------------------------------------
(* app/main.py *)

\* A request carries an Authorization header and a sage_token cookie, each
\* possibly absent.
NoToken == [sub |-> <<>>, exp |-> 0, sig |-> Sign("", <<>>, 0)]
NoHeader == [present |-> FALSE, scheme |-> "", token |-> NoToken]
NoCookie == [present |-> FALSE, token |-> NoToken]
Bearer(token) == [present |-> TRUE, scheme |-> "Bearer", token |-> token]
Cookie(token) == [present |-> TRUE, token |-> token]
\* an Authorization header that does not start with "Bearer "
Basic(token) == [present |-> TRUE, scheme |-> "Basic", token |-> token]

\* the variant that falls back to the cookie when the bearer token does not decode
get_current_user_cookie_fallback(request) ==
    LET user == IF request.authorization.present /\ request.authorization.scheme = "Bearer"
                THEN decode_token(request.authorization.token)
                ELSE None
    IN  IF Truthy(user) THEN user
        ELSE IF request.cookie.present THEN decode_token(request.cookie.token)
        ELSE None

get_current_user(request) ==
    IF request.authorization.present /\ request.authorization.scheme = "Bearer"
    THEN decode_token(request.authorization.token)
    ELSE IF request.cookie.present THEN decode_token(request.cookie.token)
    ELSE None

\* the variant that lets every request carrying a credential through
require_auth_any_credential(request) ==
    IF request.authorization.present THEN Some(request.authorization.token.sub)
    ELSE IF request.cookie.present THEN Some(request.cookie.token.sub)
    ELSE None

\* the user name, or None where the code raises HTTPException(401)
require_auth(request) ==
    LET user == get_current_user(request) IN IF Truthy(user) THEN user ELSE None

\* the bounds of the model
MaxUsers == 2
MaxSessions == 2
MaxTokens == 2
MaxTime == 8

\* a token as the client that received it holds it
Issued(token) == [jwt |-> token, issued |-> now]

Register(data) ==
    /\ ValidUserRegister(data)
    /\ LET username == lower(data.username)
           email == lower(data.email)
           hashed == hash_password(data.password)
           token == create_token(username)
       IN  IF hashed.status # 200
           THEN /\ last' = [route |-> "register", data |-> data, status |-> hashed.status,
                            detail |-> hashed.detail, token |-> NoToken]
                /\ UNCHANGED <<users, tokens, registered>>
           ELSE IF ViolatesUnique(username, email)
           THEN /\ last' = [route |-> "register", data |-> data, status |-> 400,
                            detail |-> "Username or email already exists", token |-> NoToken]
                /\ UNCHANGED <<users, tokens, registered>>
           ELSE /\ Len(users) < MaxUsers
                /\ Cardinality(tokens \cup {Issued(token)}) <= MaxTokens
                /\ users' = Append(users, [username |-> username, email |-> email,
                                           password_hash |-> hashed.hash, created_at |-> now])
                /\ tokens' = tokens \cup {Issued(token)}
                /\ registered' = registered \cup
                                     {[username |-> username, password |-> data.password]}
                /\ last' = [route |-> "register", data |-> data, status |-> 200,
                            detail |-> "", token |-> token]
    /\ UNCHANGED <<OPENAI_API_KEY, GROQ_API_KEY, chat_sessions, messages, now>>

Login(data, backend) ==
    /\ LET ids == UsersNamed(lower(data.username))
           verified == IF ids = {} THEN [raised |-> FALSE, ok |-> FALSE]
                       ELSE verify_password(data.password,
                                users[CHOOSE i \in ids : TRUE].password_hash, backend)
       IN  IF verified.raised
           THEN \* the ValueError leaves the handler: the framework answers 500
                /\ last' = [route |-> "login", data |-> data, status |-> 500,
                            detail |-> "Internal Server Error", token |-> NoToken]
                /\ UNCHANGED tokens
           ELSE IF ~verified.ok
           THEN /\ last' = [route |-> "login", data |-> data, status |-> 401,
                            detail |-> "Invalid username or password", token |-> NoToken]
                /\ UNCHANGED tokens
           ELSE LET token == create_token(users[CHOOSE i \in ids : TRUE].username) IN
                /\ Cardinality(tokens \cup {Issued(token)}) <= MaxTokens
                /\ tokens' = tokens \cup {Issued(token)}
                /\ last' = [route |-> "login", data |-> data, status |-> 200,
                            detail |-> "", token |-> token]
    /\ UNCHANGED <<OPENAI_API_KEY, GROQ_API_KEY, users, chat_sessions, messages, registered, now>>

Logout ==
    /\ last' = [route |-> "logout", status |-> 200]
    /\ UNCHANGED <<OPENAI_API_KEY, GROQ_API_KEY, users, chat_sessions, messages, tokens,
                   registered, now>>

Chat(request, message, outA, outB, rng) ==
    /\ ValidChatMessage(message)
    /\ LET auth == require_auth(request) IN
       IF ~auth.some
       THEN /\ last' = [route |-> "chat", request |-> request, message |-> message,
                        status |-> 401, response |-> <<>>, suggestions |-> <<>>,
                        calls |-> <<>>]
            /\ UNCHANGED <<chat_sessions, messages>>
       ELSE \E reply \in {get_chat_response(message, outA, outB, rng)} :
            IF reply.raised
            THEN \* an exception leaving the handler: the framework answers 500
                 /\ last' = [route |-> "chat", request |-> request, message |-> message,
                             status |-> 500, response |-> <<>>, suggestions |-> <<>>,
                             calls |-> reply.calls]
                 /\ UNCHANGED <<chat_sessions, messages>>
            ELSE
            LET ids == UsersNamed(auth.text)
                session_id == Len(chat_sessions) + 1
            IN  /\ IF ids # {}
                   THEN /\ Len(chat_sessions) < MaxSessions
                        /\ chat_sessions' = Append(chat_sessions,
                               [user_id |-> CHOOSE i \in ids : TRUE, created_at |-> now])
                        /\ messages' = messages \o
                               << [session_id |-> session_id, role |-> "user",
                                   content |-> message, created_at |-> now],
                                  [session_id |-> session_id, role |-> "assistant",
                                   content |-> reply.response, created_at |-> now] >>
                   ELSE UNCHANGED <<chat_sessions, messages>>
                /\ last' = [route |-> "chat", request |-> request, message |-> message,
                            status |-> 200, response |-> reply.response,
                            suggestions |-> reply.suggestions, calls |-> reply.calls]
    /\ UNCHANGED <<OPENAI_API_KEY, GROQ_API_KEY, users, tokens, registered, now>>

GetHistory(request) ==
    /\ LET auth == require_auth(request) IN
       last' = IF ~auth.some
               THEN [route |-> "history", request |-> request, status |-> 401,
                     sessions |-> <<>>]
               ELSE [route |-> "history", request |-> request, status |-> 200,
                     sessions |-> HistoryRows(auth.text)]
    /\ UNCHANGED <<OPENAI_API_KEY, GROQ_API_KEY, users, chat_sessions, messages, tokens,
                   registered, now>>

GetSessionMessages(session_id, request) ==
    /\ LET auth == require_auth(request)
           rows == SessionMessageRows(session_id, auth.text)
       IN  last' = IF ~auth.some
                   THEN [route |-> "session", request |-> request, session_id |-> session_id,
                         status |-> 401, messages |-> <<>>]
                   ELSE IF rows = <<>>
                   THEN [route |-> "session", request |-> request, session_id |-> session_id,
                         status |-> 404, messages |-> <<>>]
                   ELSE [route |-> "session", request |-> request, session_id |-> session_id,
                         status |-> 200, messages |-> rows]
    /\ UNCHANGED <<OPENAI_API_KEY, GROQ_API_KEY, users, chat_sessions, messages, tokens,
                   registered, now>>

Me(request) ==
    /\ LET user == get_current_user(request) IN
       last' = IF ~Truthy(user)
               THEN [route |-> "me", request |-> request, status |-> 401, username |-> <<>>]
               ELSE [route |-> "me", request |-> request, status |-> 200,
                     username |-> user.text]
    /\ UNCHANGED <<OPENAI_API_KEY, GROQ_API_KEY, users, chat_sessions, messages, tokens,
                   registered, now>>

\* time passes
Tick(days) ==
    /\ now + days <= MaxTime
    /\ now' = now + days
    /\ UNCHANGED <<OPENAI_API_KEY, GROQ_API_KEY, users, chat_sessions, messages, tokens,
                   registered, last>>

----------------------------------------------------------------------------
(* the inputs the model draws *)

MsgKill == <<"I"," ","w","a","n","t"," ","t","o"," ","k","i","l","l"," ","m","y","s","e","l","f">>
MsgSuicideUpper == <<"S","U","I","C","I","D","E">>
MsgSadDie == <<"s","o"," ","s","a","d",","," ","I"," ","W","a","n","t"," ","T","o"," ","D","i","e">>
MsgAnxious == <<"I"," ","f","e","e","l"," ","s","o"," ","a","n","x","i","o","u","s"," ","t","o","d","a","y">>
MsgSadAnxious == <<"S","a","d"," ","a","n","d"," ","a","n","x","i","o","u","s">>
MsgTired == <<"s","o"," ","T","I","R","E","D">>
MsgSleep == <<"i","n","s","o","m","n","i","a"," ","a","g","a","i","n">>
MsgFriend == <<"N","o"," ","O","n","e"," ","c","a","l","l","s">>
MsgMad == <<"I"," ","a","m"," ","M","A","D"," ","a","t"," ","h","i","m">>
MsgHello == <<"h","e","l","l","o">>
MsgHiOk == <<"h","i","."," ","o","k"," ","t","h","e","n">>
MsgBlank == <<" ">>
MsgLong == <<"I"," ","j","u","s","t"," ","d","o"," ","n","o","t"," ","k","n","o","w"," ","w","h","a","t"," ","t","o"," ","s","a","y"," ","r","i","g","h","t"," ","n","o","w","."," ","o","k">>
TextHi == <<" ","h","i"," ">>
TextBlank == <<" ">>
TextOk == <<"o","k","\n">>

UserAlice == <<"a","l","i","c","e">>
UserAliceUpper == <<"A","l","i","c","e">>
UserBob == <<"b","o","b">>
EmailA == <<"a","@","x",".","i","o">>
EmailAUpper == <<"A","@","X",".","i","o">>
EmailB == <<"b","@","x",".","i","o">>
EmailC == <<"c","@","x",".","i","o">>
PwA == <<"s","e","c","r","e","t">>

\* 72 ASCII characters: the longest password hash_password accepts
Pw72 == [i \in 1..72 |-> "a"]
\* Pw72 and one character more
Pw73 == Pw72 \o <<"x">>
\* 37 characters, 74 bytes
PwWide == [i \in 1..37 |-> "e_acute"]

AuthRegisterData ==
    { [username |-> UserAlice, email |-> EmailA, password |-> PwA],
      [username |-> UserAlice, email |-> EmailA, password |-> Pw72],
      [username |-> UserAliceUpper, email |-> EmailC, password |-> Pw72],
      [username |-> UserBob, email |-> EmailAUpper, password |-> PwA],
      [username |-> UserBob, email |-> EmailB, password |-> Pw72],
      [username |-> UserBob, email |-> EmailB, password |-> PwWide] }

AuthLoginData == [username : {UserAlice, UserAliceUpper, UserBob}, password : {PwA, Pw72, Pw73}]

\* a token that is no JWT at all
Garbage == [sub |-> <<>>, exp |-> 0, sig |-> Sign("not-a-jwt", <<>>, 0)]

\* an issued token with its subject or its expiry rewritten and its signature kept
Tampered(token) ==
    { [token EXCEPT !.sub = name] : name \in {UserAlice, UserBob} \ {token.sub} }
      \cup { [token EXCEPT !.exp = token.exp + ACCESS_TOKEN_EXPIRE_DAYS] }

IssuedTokens == { t.jwt : t \in tokens }

PresentableTokens ==
    IssuedTokens \cup UNION { Tampered(t) : t \in IssuedTokens } \cup {Garbage}

Anonymous == [authorization |-> NoHeader, cookie |-> NoCookie]

BearerRequests ==
    {Anonymous} \cup { [authorization |-> Bearer(t), cookie |-> NoCookie] : t \in PresentableTokens }

CookieRequests ==
    { [authorization |-> NoHeader, cookie |-> Cookie(t)] : t \in PresentableTokens }

EngineMessages ==
    { MsgKill, MsgSuicideUpper, MsgSadDie, MsgAnxious, MsgSadAnxious, MsgTired, MsgSleep,
      MsgFriend, MsgMad, MsgHello, MsgHiOk, MsgBlank, MsgLong }

OutcomeHi == [kind |-> "response", status |-> 200, body |-> "completion", content |-> TextHi]
OutcomeOk == [kind |-> "response", status |-> 200, body |-> "completion", content |-> TextOk]

OutcomeBlank == [kind |-> "response", status |-> 200, body |-> "completion", content |-> TextBlank]
OutcomeMalformed == [kind |-> "response", status |-> 200, body |-> "malformed", content |-> <<>>]
OutcomeError == [kind |-> "response", status |-> 500, body |-> "error", content |-> <<>>]
OutcomeException == [kind |-> "exception", status |-> 0, body |-> "", content |-> <<>>]
OutcomeTimeout == [kind |-> "timeout", status |-> 0, body |-> "", content |-> <<>>]

ProviderOutcomes ==
    { OutcomeHi, OutcomeOk, OutcomeBlank, OutcomeMalformed, OutcomeError, OutcomeException,
      OutcomeTimeout }

\* the prefix is drawn only when the coin came up below 0.5
Rng == { r \in [base : 0..4, coin : BOOLEAN, prefix : 0..2] : ~r.coin => r.prefix = 0 }

KeySettings == {"", "sk-key"}

\* the clock jumps to the expiry instant of a token issued now, or a day past it
TickDays == {ACCESS_TOKEN_EXPIRE_DAYS, ACCESS_TOKEN_EXPIRE_DAYS + 1}

----------------------------------------------------------------------------
(* the state after start-up: the keys as the environment set them, init_db()'s
   empty tables *)
Init ==
    /\ OPENAI_API_KEY \in KeySettings
    /\ GROQ_API_KEY \in KeySettings
    /\ users = <<>>
    /\ chat_sessions = <<>>
    /\ messages = <<>>
    /\ tokens = {}
    /\ registered = {}
    /\ now = 0
    /\ last = [route |-> "startup"]

\* a deployment with the Groq key alone
InitGroq == Init /\ OPENAI_API_KEY = "" /\ GROQ_API_KEY # ""

----------------------------------------------------------------------------
(* the routes together: registration, login, chat turns and the history *)

RegisterData ==
    { [username |-> UserAlice, email |-> EmailA, password |-> PwA],
      [username |-> UserBob, email |-> EmailB, password |-> PwA] }

LoginData ==
    { [username |-> UserAliceUpper, password |-> PwA],
      [username |-> UserBob, password |-> Pw72] }

\* the requests of a client: no credential, a token the server issued, or junk
Requests ==
    {Anonymous} \cup { [authorization |-> Bearer(t), cookie |-> NoCookie] : t \in IssuedTokens \cup {Garbage} }

FixedRng == [base |-> 1, coin |-> TRUE, prefix |-> 0]

\* a crisis message, and a non-crisis one that a provider answers or that falls back
ChatInputs ==
    { [message |-> MsgKill, outA |-> OutcomeHi, outB |-> OutcomeOk, rng |-> FixedRng],
      [message |-> MsgAnxious, outA |-> OutcomeTimeout, outB |-> OutcomeOk, rng |-> FixedRng] }

Next ==
    \/ \E data \in RegisterData : Register(data)
    \/ \E data \in LoginData, backend \in BcryptBackends : Login(data, backend)
    \/ Logout
    \/ \E request \in Requests : Me(request)
    \/ \E request \in Requests, in \in ChatInputs :
          Chat(request, in.message, in.outA, in.outB, in.rng)
    \/ \E request \in Requests : GetHistory(request)
    \/ \E request \in Requests, session_id \in 1..(MaxSessions + 1) :
          GetSessionMessages(session_id, request)
    \/ Tick(ACCESS_TOKEN_EXPIRE_DAYS + 1)

Spec == InitGroq /\ [][Next]_vars

----------------------------------------------------------------------------
(* chat turns under every provider configuration and outcome *)

\* a crisis message, and a non-crisis one with each kind of outcome at each provider
ChatOutcomeInputs ==
    { [message |-> MsgKill, outA |-> OutcomeHi, outB |-> OutcomeOk, rng |-> FixedRng],
      [message |-> MsgAnxious, outA |-> OutcomeHi, outB |-> OutcomeOk, rng |-> FixedRng],
      [message |-> MsgAnxious, outA |-> OutcomeBlank, outB |-> OutcomeOk, rng |-> FixedRng],
      [message |-> MsgAnxious, outA |-> OutcomeMalformed, outB |-> OutcomeTimeout, rng |-> FixedRng],
      [message |-> MsgAnxious, outA |-> OutcomeError, outB |-> OutcomeException, rng |-> FixedRng],
      [message |-> MsgAnxious, outA |-> OutcomeException, outB |-> OutcomeBlank, rng |-> FixedRng],
      [message |-> MsgAnxious, outA |-> OutcomeTimeout, outB |-> OutcomeMalformed, rng |-> FixedRng],
      [message |-> MsgBlank, outA |-> OutcomeTimeout, outB |-> OutcomeError, rng |-> FixedRng] }

NextChat ==
    \/ Register([username |-> UserAlice, email |-> EmailA, password |-> PwA])
    \/ \E request \in Requests, in \in ChatOutcomeInputs :
          Chat(request, in.message, in.outA, in.outB, in.rng)

SpecChat == Init /\ [][NextChat]_vars

----------------------------------------------------------------------------
(* registration, login and the life of a token *)

NextAuth ==
    \/ \E data \in AuthRegisterData : Register(data)
    \/ \E data \in AuthLoginData, backend \in BcryptBackends : Login(data, backend)
    \/ Logout
    \/ \E request \in BearerRequests \cup CookieRequests : Me(request)
    \/ \E days \in TickDays : Tick(days)

SpecAuth == InitGroq /\ [][NextAuth]_vars

----------------------------------------------------------------------------
(* requests that carry a header, a cookie, both or neither *)

\* each header (none, Bearer, another scheme) with each cookie (none, present),
\* the tokens being issued ones or junk
CredentialRequests ==
    LET offered == IssuedTokens \cup {Garbage}
    IN  [ authorization : {NoHeader} \cup { Bearer(t) : t \in offered }
                                    \cup { Basic(t) : t \in offered },
          cookie : {NoCookie} \cup { Cookie(t) : t \in offered } ]

NextCredential ==
    \/ \E data \in RegisterData : Register(data)
    \/ \E request \in CredentialRequests : Me(request)
    \/ \E request \in CredentialRequests : GetHistory(request)
    \/ Tick(ACCESS_TOKEN_EXPIRE_DAYS + 1)

SpecCredential == InitGroq /\ [][NextCredential]_vars

----------------------------------------------------------------------------
(* the response engine on its own: one call of get_chat_response, its
   arguments and the random draws chosen with the start-up state *)

InitEngine ==
    /\ OPENAI_API_KEY \in KeySettings
    /\ GROQ_API_KEY \in KeySettings
    /\ users = <<>>
    /\ chat_sessions = <<>>
    /\ messages = <<>>
    /\ tokens = {}
    /\ registered = {}
    /\ now = 0
    /\ \E message \in EngineMessages, outA \in ProviderOutcomes, outB \in ProviderOutcomes,
          rng \in Rng :
           last = [route |-> "call", message |-> message, outA |-> outA, outB |-> outB,
                   rng |-> rng]

GetChatResponse ==
    /\ last.route = "call"
    /\ last' = [route |-> "get_chat_response", message |-> last.message,
                outA |-> last.outA, outB |-> last.outB, rng |-> last.rng,
                result |-> get_chat_response(last.message, last.outA, last.outB, last.rng)]
    /\ UNCHANGED <<OPENAI_API_KEY, GROQ_API_KEY, users, chat_sessions, messages, tokens,
                   registered, now>>

NextEngine == GetChatResponse

SpecEngine == InitEngine /\ [][NextEngine]_vars

----------------------------------------------------------------------------
(* the claims about the response engine, checked under SpecEngine *)

\* the call of get_chat_response has returned
Returned == last.route = "get_chat_response"

\* the message holds a crisis keyword as a case-insensitive substring
HoldsCrisisKeyword(message) ==
    LET folded == lower(message)
    IN  \E k \in 1..Len(CRISIS_KEYWORDS) : Contains(folded, CRISIS_KEYWORDS[k])

\* the provider answered 200 with a completion whose text is not blank
GeneratedText(outcome) ==
    /\ outcome.kind = "response" /\ outcome.status = 200 /\ outcome.body = "completion"
    /\ \E i \in 1..Len(outcome.content) : ~IsSpace(outcome.content[i])

SucceededA == OPENAI_API_KEY # "" /\ GeneratedText(last.outA)
SucceededB == ~SucceededA /\ GROQ_API_KEY # "" /\ GeneratedText(last.outB)

(* C1: a message that holds a crisis keyword as a case-insensitive substring
   gets exactly the fixed crisis message and the three fixed helpline
   suggestions, whatever the provider configuration and outcomes, and neither
   a remote provider is called nor the fallback synthesis run. *)
C1_CrisisMessageAlways ==
    (Returned /\ HoldsCrisisKeyword(last.message)) =>
        /\ last.result.response = CRISIS_MESSAGE
        /\ last.result.suggestions =
             <<"Call Tele-MANAS 14416", "Call KIRAN 1800-599-0019",
               "Reach out to someone you trust">>
        /\ last.result.calls = <<>>

\* an upper-case crisis message, both providers configured and ready to answer
C1_Witness ==
    /\ Returned
    /\ last.message = MsgSuicideUpper
    /\ OPENAI_API_KEY # "" /\ GROQ_API_KEY # ""
    /\ GeneratedText(last.outA) /\ GeneratedText(last.outB)
    /\ last.result.response = CRISIS_MESSAGE

(* C3: for a non-crisis message provider A is called first and only if its key
   is configured, provider B only if configured and only after A failed or was
   unconfigured, each at most once; a provider's success returns that
   provider's text with the generic suggestions, and the fallback runs only
   when both providers are unconfigured or failed. *)
C3_ProviderOrder ==
    (Returned /\ ~HoldsCrisisKeyword(last.message)) =>
        /\ last.result.calls =
               (IF OPENAI_API_KEY # "" THEN <<"openai">> ELSE <<>>)
            \o (IF ~SucceededA /\ GROQ_API_KEY # "" THEN <<"groq">> ELSE <<>>)
            \o (IF ~SucceededA /\ ~SucceededB THEN <<"fallback">> ELSE <<>>)
        /\ SucceededA =>
              /\ last.result.response = strip(last.outA.content)
              /\ last.result.suggestions =
                   <<"Tell me more", "What coping strategies help?", "I need professional help">>
        /\ SucceededB =>
              /\ last.result.response = strip(last.outB.content)
              /\ last.result.suggestions =
                   <<"Tell me more", "What coping strategies help?", "I need professional help">>

\* A answered 200 with a blank text, B then generated the reply
C3_Witness ==
    /\ Returned
    /\ ~HoldsCrisisKeyword(last.message)
    /\ OPENAI_API_KEY # "" /\ GROQ_API_KEY # ""
    /\ last.outA.content = TextBlank /\ last.outA.body = "completion"
    /\ last.outB.content = TextOk /\ last.outB.body = "completion"
    /\ last.result.calls = <<"openai", "groq">>
    /\ last.result.response = <<"o", "k">>

\* the topics in the order the claim gives them, each with its keyword list
TopicOrder == <<"depression", "anxiety", "stress", "loneliness", "sleep", "anger">>

TopicKeywords ==
    [ depression |-> DepressionKeywords, anxiety |-> AnxietyKeywords,
      stress |-> StressKeywords, loneliness |-> LonelinessKeywords,
      sleep |-> SleepKeywords, anger |-> AngerKeywords ]

\* the topics one of whose keywords occurs in the case-folded message
MatchingTopics(message) ==
    LET folded == lower(message)
    IN  { i \in 1..Len(TopicOrder) :
            \E k \in 1..Len(TopicKeywords[TopicOrder[i]]) :
                Contains(folded, TopicKeywords[TopicOrder[i]][k]) }

FirstMatchingTopic(message) ==
    LET matching == MatchingTopics(message)
    IN  IF matching = {} THEN "general"
        ELSE TopicOrder[CHOOSE i \in matching : \A j \in matching : i <= j]

FallbackMode == Returned /\ ~HoldsCrisisKeyword(last.message) /\ ~SucceededA /\ ~SucceededB

(* C10: in fallback mode the topic is the first of depression, anxiety, stress,
   loneliness, sleep, anger whose keyword list has a keyword occurring as a
   case-insensitive substring of the message, else general, and the
   suggestions returned are the fixed triad of that topic. *)
C10_FallbackTopic ==
    FallbackMode =>
        LET topic == FirstMatchingTopic(last.message)
        IN  /\ _detect_topic(last.message) = topic
            /\ last.result.suggestions = suggestions_map[topic]

\* "so TIRED" has a keyword of stress and of sleep, in upper case: stress wins
C10_Witness ==
    /\ FallbackMode
    /\ last.message = MsgTired
    /\ last.result.suggestions =
         <<"Stress management tips", "Setting boundaries", "Self-care ideas">>

\* the example of the specification: no provider configured, "I feel so anxious today"
C10_WitnessAnxious ==
    /\ FallbackMode
    /\ OPENAI_API_KEY = "" /\ GROQ_API_KEY = ""
    /\ last.message = MsgAnxious
    /\ last.result.suggestions =
         <<"Breathing exercises", "Grounding techniques", "When to see a professional">>

----------------------------------------------------------------------------
(* the claims about the routes *)

\* the one token a request presents, in its bearer header or in its cookie
Presents(request, token) ==
    \/ request = [authorization |-> Bearer(token), cookie |-> NoCookie]
    \/ request = [authorization |-> NoHeader, cookie |-> Cookie(token)]

\* the request presents a token the server issued less than 7 days ago
Authenticated(request) ==
    \E t \in tokens : Presents(request, t.jwt) /\ now < t.issued + ACCESS_TOKEN_EXPIRE_DAYS

\* the user that token was issued to
CallerOf(request) == (CHOOSE t \in tokens : Presents(request, t.jwt)).jwt.sub

\* no credential, a token the server never issued, or one issued more than 7 days ago
Unauthenticated(request) ==
    \/ request = Anonymous
    \/ \E token \in {request.authorization.token, request.cookie.token} :
          /\ Presents(request, token)
          /\ \A t \in tokens : t.jwt = token => now > t.issued + ACCESS_TOKEN_EXPIRE_DAYS

\* this step is a request to the route, answered in last'
RequestStep(route) == now' = now /\ last'.route = route

OwnedBy(session_id, username) ==
    /\ session_id \in 1..Len(chat_sessions)
    /\ users[chat_sessions[session_id].user_id].username = username

MessagesOf(session_id) == SelectSeq(messages, LAMBDA m : m.session_id = session_id)

ProtectedRoutes == {"chat", "history", "session", "me"}

(* C2: an authenticated POST /api/chat with a valid message is answered 200
   with a non-empty text, whatever keys are configured and whatever the
   providers' calls end in: no provider failure leaves get_chat_response. *)
C2_ChatAlwaysAnswers ==
    (last.route = "chat" /\ Authenticated(last.request)) =>
        /\ last.status = 200
        /\ last.response # <<>>

\* both providers configured, both called and failed on alice's second turn, the
\* fallback answered
C2_Witness ==
    /\ last.route = "chat"
    /\ last.message = MsgBlank
    /\ Len(chat_sessions) = 2
    /\ Authenticated(last.request)
    /\ OPENAI_API_KEY # "" /\ GROQ_API_KEY # ""
    /\ last.calls = <<"openai", "groq", "fallback">>
    /\ last.status = 200
    /\ last.response # <<>>

(* C4: GET /api/history/{id} by an authenticated user returns the messages of
   session id when that user owns it, and 404 when the session is another
   user's or does not exist; GET /api/history lists only sessions the
   requesting user owns. *)
C4_HistoryIsolation ==
    [][ /\ (RequestStep("session") /\ Authenticated(last'.request)) =>
             IF OwnedBy(last'.session_id, CallerOf(last'.request))
             THEN /\ last'.status = 200
                  /\ Len(last'.messages) = Len(MessagesOf(last'.session_id))
                  /\ \A k \in 1..Len(last'.messages) :
                        \E m \in 1..Len(messages) :
                            /\ messages[m].session_id = last'.session_id
                            /\ messages[m].role = last'.messages[k].role
                            /\ messages[m].content = last'.messages[k].content
             ELSE /\ last'.status = 404
                  /\ last'.messages = <<>>
        /\ (RequestStep("history") /\ Authenticated(last'.request)) =>
             /\ last'.status = 200
             /\ \A k \in 1..Len(last'.sessions) :
                   OwnedBy(last'.sessions[k].id, CallerOf(last'.request))
             /\ \A id \in 1..Len(chat_sessions) :
                   OwnedBy(id, CallerOf(last'.request)) =>
                       \E k \in 1..Len(last'.sessions) : last'.sessions[k].id = id
      ]_vars

\* bob asked for a session of alice's and got 404
C4_Witness ==
    /\ last.route = "session"
    /\ last.status = 404
    /\ Authenticated(last.request)
    /\ CallerOf(last.request) = UserBob
    /\ OwnedBy(last.session_id, UserAlice)

(* C5: on POST /api/chat, GET /api/history, GET /api/history/{id} and GET
   /api/me a request with no credential, or with one that does not decode to a
   user name, is answered 401; the rejected chat request calls no provider,
   runs no fallback and leaves the sessions and messages as they were. *)
C5_UnauthorizedWithoutCredential ==
    [][ \A route \in ProtectedRoutes :
          (RequestStep(route) /\ Unauthenticated(last'.request)) =>
              /\ last'.status = 401
              /\ route = "chat" =>
                    /\ last'.calls = <<>>
                    /\ last'.response = <<>>
                    /\ UNCHANGED <<chat_sessions, messages>>
      ]_vars

\* a chat request carrying an expired token of a user with a stored session
C5_Witness ==
    /\ last.route = "chat"
    /\ last.status = 401
    /\ \E t \in tokens :
          /\ Presents(last.request, t.jwt)
          /\ now > t.issued + ACCESS_TOKEN_EXPIRE_DAYS
    /\ Len(chat_sessions) > 0

\* a stored user has this lower-cased username or this lower-cased email
Taken(data) ==
    \E i \in 1..Len(users) :
        \/ lower(users[i].username) = lower(data.username)
        \/ lower(users[i].email) = lower(data.email)

(* C6: no two stored users share a case-folded username or a case-folded
   email; a register request whose lower-cased username or email is taken is
   answered 400, is given no token and leaves the users as they were, so the
   stored password hash still verifies the first registrant's password. *)
C6_UniqueUsers ==
    [][ /\ \A i, j \in 1..Len(users') :
              i # j => /\ lower(users'[i].username) # lower(users'[j].username)
                       /\ lower(users'[i].email) # lower(users'[j].email)
        /\ (RequestStep("register") /\ Taken(last'.data)) =>
              /\ last'.status = 400
              /\ last'.token = NoToken
              /\ UNCHANGED <<users, tokens>>
              /\ \A r \in registered' :
                    \E i \in 1..Len(users') :
                        /\ users'[i].username = r.username
                        /\ verify_password(r.password, users'[i].password_hash, "truncates").ok
      ]_vars

\* "Alice" with a fresh email, refused because alice is registered
C6_Witness ==
    /\ last.route = "register"
    /\ last.status = 400
    /\ last.detail = "Username or email already exists"
    /\ last.data.username = UserAliceUpper
    /\ last.data.email = EmailC
    /\ Len(users) = 1
    /\ users[1].username = UserAlice

\* the user registered under this name with this password
RegisteredWith(data) ==
    \E r \in registered :
        r.username = lower(data.username) /\ r.password = data.password

(* C7: POST /api/login returns a token for the stored lower-cased username if
   and only if that username is registered and the password is the one given
   at registration; otherwise it answers 401 with the one generic detail. *)
C7_LoginIffRegisteredPassword ==
    last.route = "login" =>
        IF RegisteredWith(last.data)
        THEN /\ last.status = 200
             /\ last.token.sub = lower(last.data.username)
        ELSE /\ last.status = 401
             /\ last.detail = "Invalid username or password"
             /\ last.token = NoToken

\* a login with the 72-character password and one character more was given a token
C7_Witness ==
    /\ last.route = "login"
    /\ last.data.password = Pw73
    /\ ~RegisteredWith(last.data)
    /\ last.status = 200
    /\ last.token \in IssuedTokens

(* C8: a token issued for user u decodes to u as long as fewer than 7 days
   have passed since its issue, whatever requests came in between, logout
   included; once more than 7 days have passed it decodes to None, and so does
   a token with a rewritten subject or expiry and a string that is no token;
   the user name GET /api/me returns is the one an issued token was issued to. *)
C8_TokenLifetime ==
    /\ \A t \in tokens :
          /\ now < t.issued + ACCESS_TOKEN_EXPIRE_DAYS => decode_token(t.jwt) = Some(t.jwt.sub)
          /\ now > t.issued + ACCESS_TOKEN_EXPIRE_DAYS => decode_token(t.jwt) = None
          /\ \A forged \in Tampered(t.jwt) : decode_token(forged) = None
          /\ \E r \in registered : t.jwt.sub = r.username
    /\ decode_token(Garbage) = None
    /\ (last.route \in {"register", "login"} /\ last.status = 200) =>
          /\ last.token.sub = lower(last.data.username)
          /\ last.token \in IssuedTokens
    /\ (last.route = "me" /\ last.status = 200) =>
          \E t \in tokens :
              /\ Presents(last.request, t.jwt)
              /\ last.username = t.jwt.sub

\* after a logout, more than a week on: alice's token from day 0 is dead and the
\* one she was given since still decodes to alice
C8_Witness ==
    /\ last.route = "logout"
    /\ \E t \in tokens :
          /\ t.issued = 0 /\ now > ACCESS_TOKEN_EXPIRE_DAYS
          /\ decode_token(t.jwt) = None
    /\ \E t \in tokens :
          /\ t.issued > 0 /\ now < t.issued + ACCESS_TOKEN_EXPIRE_DAYS
          /\ decode_token(t.jwt) = Some(UserAlice)

(* C9: an authenticated chat turn adds exactly one session, owned by the
   caller, and exactly two messages of that session, the user's message and
   then the assistant's response as returned to the caller; so every session
   has exactly two messages, and fetching a session returns the user's
   message and then the assistant's. *)
C9_OneSessionTwoMessages ==
    [][ /\ (RequestStep("chat") /\ Authenticated(last'.request)) =>
             LET session_id == Len(chat_sessions) + 1
                 m1 == messages'[Len(messages) + 1]
                 m2 == messages'[Len(messages) + 2]
             IN  /\ last'.status = 200
                 /\ Len(chat_sessions') = session_id
                 /\ SubSeq(chat_sessions', 1, Len(chat_sessions)) = chat_sessions
                 /\ users[chat_sessions'[session_id].user_id].username
                        = CallerOf(last'.request)
                 /\ Len(messages') = Len(messages) + 2
                 /\ SubSeq(messages', 1, Len(messages)) = messages
                 /\ m1.session_id = session_id /\ m1.role = "user"
                 /\ m1.content = last'.message
                 /\ m2.session_id = session_id /\ m2.role = "assistant"
                 /\ m2.content = last'.response
        /\ \A s \in 1..Len(chat_sessions') :
              Cardinality({ m \in 1..Len(messages') : messages'[m].session_id = s }) = 2
        /\ (RequestStep("session") /\ last'.status = 200) =>
              /\ Len(last'.messages) = 2
              /\ last'.messages[1].role = "user"
              /\ last'.messages[2].role = "assistant"
              /\ last'.messages[1].content = MessagesOf(last'.session_id)[1].content
              /\ last'.messages[2].content = MessagesOf(last'.session_id)[2].content
      ]_vars

\* the second session fetched: the user's message, then the reply Groq generated
C9_Witness ==
    /\ last.route = "session"
    /\ last.status = 200
    /\ last.session_id = 2
    /\ Len(last.messages) = 2
    /\ last.messages[1].role = "user" /\ last.messages[1].content = MsgAnxious
    /\ last.messages[2].role = "assistant" /\ last.messages[2].content = <<"o", "k">>

(* C11: a register request whose password encodes to more than 72 bytes of
   UTF-8, one of at most 72 characters included, is answered with a client
   error, stores no user and is given no token; hash_password accepts every
   password of at most 72 bytes. *)
C11_LongPasswordRejected ==
    [][ RequestStep("register") =>
          /\ Len(utf8(last'.data.password)) > 72 =>
                /\ last'.status = 400
                /\ last'.token = NoToken
                /\ UNCHANGED <<users, tokens, registered>>
          /\ Len(utf8(last'.data.password)) <= 72 =>
                /\ hash_password(last'.data.password).status = 200
                /\ last'.detail # "Password too long"
                /\ ~Taken(last'.data) => last'.status = 200
      ]_vars

\* bob, not yet registered, with 37 two-byte characters: within the schema's 72
\* characters, 74 bytes, refused
C11_Witness ==
    /\ last.route = "register"
    /\ last.data.username = UserBob
    /\ last.data.password = PwWide
    /\ Len(PwWide) <= 72
    /\ last.status = 400
    /\ last.detail = "Password too long"
    /\ users = <<>>
    /\ tokens = {}

\* the words of the message's first clause: the text before the first . ! or ?
FirstClauseWords(message) == split(FirstClause(strip(message)))

\* the message is long enough to be reflected
Reflectable(message) ==
    Len(strip(message)) >= 10 /\ Len(FirstClauseWords(message)) >= 2

\* the lower-cased first clause, cut to at most 8 words
ReflectedPhrase(message) == lower(join(Take(FirstClauseWords(message), 8)))

YouSharedThat == <<"Y","o","u"," ","s","h","a","r","e","d"," ","t","h","a","t"," ">>
ItSoundsLike == <<"I","t"," ","s","o","u","n","d","s"," ","l","i","k","e"," ">>
HearingThat == <<"H","e","a","r","i","n","g"," ","t","h","a","t"," ">>

\* the templates of the first matching topic's pool
PoolTemplates(message) ==
    LET pool == EMPATHETIC_RESPONSES[FirstMatchingTopic(message)]
    IN  { pool[k] : k \in 1..Len(pool) }

\* a template preceded by a wrapper with one of the openings
WrappedTemplates(message, openings) ==
    LET phrase == ReflectedPhrase(message)
    IN  { opening \o phrase \o <<" ", "EM_DASH", " ">> \o template :
            opening \in openings, template \in PoolTemplates(message) }

(* C12: in fallback mode the response is a template of the detected topic's
   pool, optionally preceded by the wrapper "You shared that <phrase> -- ",
   <phrase> being the lower-cased first clause of the message cut to at most 8
   words; when the stripped message has fewer than 10 characters or its first
   clause fewer than 2 words the response is exactly a template. *)
C12_ReflectionWrapper ==
    FallbackMode =>
        /\ last.result.response \in
              PoolTemplates(last.message) \cup
              (IF Reflectable(last.message)
               THEN WrappedTemplates(last.message, {YouSharedThat}) ELSE {})

(* C12, amended: as above, the wrapper being one of "You shared that <phrase>
   -- ", "It sounds like <phrase> -- " and "Hearing that <phrase> -- ". *)
C12_ReflectionWrapperOneOfThree ==
    FallbackMode =>
        /\ last.result.response \in
              PoolTemplates(last.message) \cup
              (IF Reflectable(last.message)
               THEN WrappedTemplates(last.message, {YouSharedThat, ItSoundsLike, HearingThat})
               ELSE {})

\* a first clause of ten words, cut to eight and lower-cased, behind "It sounds like"
C12_Witness ==
    /\ FallbackMode
    /\ last.message = MsgLong
    /\ \E template \in PoolTemplates(MsgLong) :
          last.result.response =
              ItSoundsLike
              \o <<"i"," ","j","u","s","t"," ","d","o"," ","n","o","t"," ","k","n","o","w"," ",
                   "w","h","a","t"," ","t","o"," ","s","a","y">>
              \o <<" ", "EM_DASH", " ">> \o template

\* the request has an Authorization header that starts with "Bearer "
HasBearer(request) ==
    request.authorization.present /\ request.authorization.scheme = "Bearer"

\* the server issued the token less than 7 days ago
Live(token) ==
    \E t \in tokens : t.jwt = token /\ now < t.issued + ACCESS_TOKEN_EXPIRE_DAYS

\* the server never issued the token, or issued it more than 7 days ago
Dead(token) ==
    \A t \in tokens : t.jwt = token => now > t.issued + ACCESS_TOKEN_EXPIRE_DAYS

(* C13: a request with an Authorization header starting with "Bearer " is
   judged by that token alone, whatever its cookie: it is unauthorized when
   the bearer token is invalid even if the cookie is valid; the cookie decides
   only when there is no such header; a request with neither is
   unauthorized. *)
C13_BearerPrecedence ==
    [][ \A route \in {"me", "history"} :
          RequestStep(route) =>
              LET request == last'.request
                  header == request.authorization.token
                  cookie == request.cookie.token
                  answers(token) ==
                      /\ last'.status = 200
                      /\ route = "me" => last'.username = token.sub
              IN  /\ (HasBearer(request) /\ Live(header)) => answers(header)
                  /\ (HasBearer(request) /\ Dead(header)) => last'.status = 401
                  /\ (~HasBearer(request) /\ request.cookie.present /\ Live(cookie)) =>
                         answers(cookie)
                  /\ (~HasBearer(request) /\ request.cookie.present /\ Dead(cookie)) =>
                         last'.status = 401
                  /\ (~HasBearer(request) /\ ~request.cookie.present) => last'.status = 401
      ]_vars

\* a junk bearer token beside alice's live cookie: unauthorized
C13_Witness ==
    /\ last.route = "history"
    /\ last.status = 401
    /\ last.request.authorization = Bearer(Garbage)
    /\ last.request.cookie.present
    /\ Live(last.request.cookie.token)
    /\ last.request.cookie.token.sub = UserAlice

====
